---- MODULE Spec2Model ----
(***************************************************************************)
(* A model of the puzzlehunt server's core (huntserver/models.py and       *)
(* huntserver/info_views.py): the Hunt "current hunt" flag maintained by   *)
(* Hunt.clean / Hunt.save, the registration view (new_team, join_team,     *)
(* leave_team) and the index view, the Hunt.is_locked / is_open /         *)
(* is_public properties, and the submission grading / puzzle unlocking     *)
(* pipeline that works on the Submission, Solve and Unlock tables.         *)
(*                                                                         *)
(* Database tables are modelled as they are stored: Hunt rows by primary   *)
(* key, Team / Solve / Unlock / Submission rows as sequences in insertion  *)
(* order (the position of a row is its primary key), so that duplicate     *)
(* rows are representable and uniqueness is something the operations have  *)
(* to establish.  Strings are sequences of characters and str.lower() is   *)
(* computed character by character.                                        *)
(***************************************************************************)
EXTENDS Integers, Sequences, FiniteSets, TLC

\* ------------------------------------------------------------------ bounds
\* Number of Hunt primary keys the model draws from.
NumHunts == 2
\* Largest Hunt.team_size an organizer enters.
MaxTeamSize == 2
\* Number of concurrent Hunt.save transactions (database connections).
NumProcs == 2
\* Number of registered people (users with a Person row).
NumPersons == 3
\* Largest number of rows of the Team table.
MaxTeams == 2
\* Largest number of rows of the Submission table.
MaxSubmissions == 2
\* Number of requests being graded at once.
NumGraders == 2
\* Number of registration requests being served at once.
NumRequests == 2
\* Latest instant of the clock; instants are 0..MaxTime.
MaxTime == 4

HuntIds == 1..NumHunts
TeamSizes == 1..MaxTeamSize
Procs == 1..NumProcs
Persons == 1..NumPersons
Graders == 1..NumGraders
Requests == 1..NumRequests
Times == 0..MaxTime

VARIABLES
    hunt_rows,        \* set of primary keys of the rows of the Hunt table
    is_current_hunt,  \* Hunt.is_current_hunt of every row (FALSE when no row)
    team_size,        \* Hunt.team_size of every row (0 when no row)
    txn,              \* per connection: the Hunt.save transaction in progress
    teams,            \* the Team table: rows in insertion order, pk = position
    membership,       \* the Person.teams relation: pairs <<person, team pk>>
    puzzles,          \* the Puzzle table: rows by pk
    submissions,      \* the Submission table: rows in insertion order
    solves,           \* the Solve table: rows in insertion order
    unlocks,          \* the Unlock table: rows in insertion order
    grading,          \* per request being graded: the Solve insert it is about to do
    reqs,             \* per registration request in progress: the statement it is at
    now,              \* timezone.now()
    dates,            \* start_date and end_date of the hunt whose state is read
    last,             \* the latest call or request
    response          \* how it ended: the exception raised or the HTTP response

huntVars == <<hunt_rows, is_current_hunt, team_size>>
regVars == <<teams, membership>>
gradeVars == <<puzzles, submissions, solves, unlocks, grading>>
timeVars == <<now, dates>>
vars == <<hunt_rows, is_current_hunt, team_size, txn, teams, membership,
          puzzles, submissions, solves, unlocks, grading, reqs, now, dates,
          last, response>>

\* ---------------------------------------------------------------- strings
\* Strings are sequences of characters; these are the letters that have a
\* lower-case form different from themselves.
UpperChars == <<"A", "B">>
LowerChars == <<"a", "b">>

\* (mutation of lower_char: no case folding)
lower_char_identity(c) == c

\* str.lower() on one character.
lower_char(c) ==
    IF \E i \in 1..Len(UpperChars) : UpperChars[i] = c
    THEN LowerChars[CHOOSE i \in 1..Len(UpperChars) : UpperChars[i] = c]
    ELSE c

\* str.lower()
lower(s) == [i \in 1..Len(s) |-> lower_char(s[i])]

\* The team names the registration form is posted with ("" included).
TeamNames == { <<"A", "b">>, <<"a", "b">>, <<"B">>, <<>> }
\* The join codes the model lets random.choice produce: five characters of
\* the alphabet "ABCDEFGHJKLMNPQRSTUVWXYZ23456789".
GeneratedCodes == { <<"A", "B", "2", "A", "B">> }
\* The join codes the registration form is posted with: a generated code as
\* it is, in another letter case, and a different code.
PostedCodes == GeneratedCodes \cup
               { <<"a", "B", "2", "a", "b">>, <<"B", "A", "2", "2", "A">> }

\* ------------------------------------------------------------ Hunt: clean
\* Hunts whose stored row has is_current_hunt = True.
CurrentHunts == {h \in hunt_rows : is_current_hunt[h]}

\* (mutation of clean_raises: the stored row is never consulted)
clean_unchecked(pk, cur) == FALSE

\* Hunt.clean: an instance with is_current_hunt = False whose stored row
\* (looked up by pk; ObjectDoesNotExist is swallowed) has the flag set raises
\* ValidationError.  pk = 0 stands for the pk None of an unsaved instance.
clean_raises(pk, cur) ==
    /\ ~cur
    /\ pk \in hunt_rows
    /\ is_current_hunt[pk]

\* (mutation of clear_current: the update of the other rows is left out)
clear_current_skipped(flags) == flags

\* Hunt.objects.filter(is_current_hunt=True).update(is_current_hunt=False)
clear_current(flags) == [h \in HuntIds |-> FALSE]

\* The pk the database gives a newly inserted Hunt row (auto-increment; no
\* row is ever deleted), or the instance's own pk.
row_pk(pk) == IF pk = 0 THEN Cardinality(hunt_rows) + 1 ELSE pk

\* The instances Hunt.save can be called on: a stored row, or a new instance
\* while the model still has a primary key left for it.
Saveable == hunt_rows \cup (IF hunt_rows = HuntIds THEN {} ELSE {0})

\* (mutation of save_flags: the other rows are cleared whatever the flag)
save_flags_clearing(pk, cur) ==
    [clear_current(is_current_hunt) EXCEPT ![row_pk(pk)] = cur]

\* The flags after the body of Hunt.save that follows full_clean().
save_flags(pk, cur) ==
    [(IF cur THEN clear_current(is_current_hunt) ELSE is_current_hunt)
        EXCEPT ![row_pk(pk)] = cur]

IdleRequest ==
    [pc |-> "idle", user |-> 0, team |-> 0, hunt |-> 0, name |-> <<>>, code |-> <<>>]
IdleTxn == [pc |-> "idle", pk |-> 0, cur |-> FALSE, size |-> 0, cleared |-> {}]
NoTxn == \A p \in Procs : txn[p].pc = "idle"

\* ------------------------------------------------------- Hunt: properties
\* Hunt.is_locked, Hunt.is_open and Hunt.is_public for the values
\* timezone.now() returns; is_open calls it twice.
is_locked(t, start_date) == t < start_date
is_open(t1, t2, start_date, end_date) == t1 > start_date /\ t2 < end_date
is_public(t, end_date) == t > end_date

\* The three properties are read for a hunt; the clock may have moved on by
\* the second call of is_open.
hunt_state(t2) ==
    /\ last' = [op |-> "hunt_state", now |-> now, now2 |-> t2,
                start_date |-> dates.start_date, end_date |-> dates.end_date,
                is_locked |-> is_locked(now, dates.start_date),
                is_open |-> is_open(now, t2, dates.start_date, dates.end_date),
                is_public |-> is_public(now, dates.end_date)]
    /\ response' = "none"
    /\ UNCHANGED <<hunt_rows, is_current_hunt, team_size, txn, teams, membership,
                   puzzles, submissions, solves, unlocks, grading, reqs, timeVars>>

HuntState == \E t2 \in {now, now + 1} \cap Times : hunt_state(t2)

\* Time passes.
Tick ==
    /\ now < MaxTime
    /\ now' = now + 1
    /\ UNCHANGED <<hunt_rows, is_current_hunt, team_size, txn, teams, membership,
                   puzzles, submissions, solves, unlocks, grading, reqs, dates,
                   last, response>>

\* ------------------------------------------------- Hunt: save, sequential
\* Hunt.save run to completion in one transaction with no other connection
\* active: full_clean, the conditional clear, the row write.
save(pk, cur, size) ==
    /\ NoTxn
    /\ IF clean_raises(pk, cur)
       THEN /\ last' = [op |-> "save", pk |-> pk, cur |-> cur]
            /\ response' = "ValidationError"
            /\ UNCHANGED huntVars
       ELSE /\ is_current_hunt' = save_flags(pk, cur)
            /\ hunt_rows' = hunt_rows \cup {row_pk(pk)}
            /\ team_size' = [team_size EXCEPT ![row_pk(pk)] = size]
            /\ last' = [op |-> "save", pk |-> row_pk(pk), cur |-> cur]
            /\ response' = "saved"
    /\ UNCHANGED <<txn, regVars, gradeVars, reqs, timeVars>>

SaveHunt == \E pk \in Saveable, cur \in BOOLEAN, size \in TeamSizes : save(pk, cur, size)

\* ------------------------------------------------- Hunt: save, concurrent
\* The same method as a transaction of one connection among several, under
\* READ COMMITTED (Django's default): every statement reads the committed
\* rows, an UPDATE locks the rows it changes until the transaction ends (a
\* statement that needs a locked row waits), and the writes become visible
\* at commit.  The row write of super().save() is the last statement, so it
\* is taken together with the commit.

\* Rows another open transaction has updated and still holds locked.
LockedByOther(p) == UNION {txn[q].cleared : q \in Procs \ {p}}

\* self.full_clean() as the first statement of the transaction.
TxClean(p, pk, cur, size) ==
    /\ txn[p].pc = "idle"
    /\ IF clean_raises(pk, cur)
       THEN /\ last' = [op |-> "save", pk |-> pk, cur |-> cur]
            /\ response' = "ValidationError"
            /\ UNCHANGED txn
       ELSE /\ txn' = [txn EXCEPT ![p] = [pc |-> IF cur THEN "clear" ELSE "write",
                                           pk |-> pk, cur |-> cur, size |-> size,
                                           cleared |-> {}]]
            /\ UNCHANGED <<last, response>>
    /\ UNCHANGED <<huntVars, regVars, gradeVars, reqs, timeVars>>

\* if self.is_current_hunt: Hunt.objects.filter(...).update(...)
TxClear(p) ==
    /\ txn[p].pc = "clear"
    /\ CurrentHunts \cap LockedByOther(p) = {}
    /\ txn' = [txn EXCEPT ![p].pc = "write", ![p].cleared = CurrentHunts]
    /\ UNCHANGED <<huntVars, regVars, gradeVars, reqs, timeVars, last, response>>

\* super(Hunt, self).save() and the commit at the end of the atomic block.
TxWrite(p) ==
    /\ txn[p].pc = "write"
    /\ txn[p].pk \notin LockedByOther(p)
    /\ txn[p].pk = 0 => hunt_rows # HuntIds
    /\ LET pk == row_pk(txn[p].pk) IN
       /\ is_current_hunt' =
             [h \in HuntIds |->
                 IF h = pk THEN txn[p].cur
                 ELSE IF h \in txn[p].cleared THEN FALSE
                 ELSE is_current_hunt[h]]
       /\ hunt_rows' = hunt_rows \cup {pk}
       /\ team_size' = [team_size EXCEPT ![pk] = txn[p].size]
       /\ last' = [op |-> "save", pk |-> pk, cur |-> txn[p].cur]
       /\ response' = "saved"
    /\ txn' = [txn EXCEPT ![p] = IdleTxn]
    /\ UNCHANGED <<regVars, gradeVars, reqs, timeVars>>

TxBegin == \E p \in Procs, pk \in Saveable, cur \in BOOLEAN, size \in TeamSizes :
              TxClean(p, pk, cur, size)
TxClearStep == \E p \in Procs : TxClear(p)
TxWriteStep == \E p \in Procs : TxWrite(p)

\* ------------------------------------------------------------ registration
\* curr_hunt.team_set: the pks of the Team rows of a hunt.
team_set(h) == {i \in 1..Len(teams) : teams[i].hunt = h}

\* team.person_set.all()
person_set(i) == {u \in Persons : <<u, i>> \in membership}

\* (mutation of iexact: the names are compared as typed)
iexact_as_typed(a, b) == a = b

\* The field lookup team_name__iexact: equality ignoring letter case.
iexact(a, b) == lower(a) = lower(b)

\* (mutation of curr_hunt_raises: the first of several current hunts is taken)
curr_hunt_raises_if_none == CurrentHunts = {}

\* Hunt.objects.get(is_current_hunt=True) raises DoesNotExist or
\* MultipleObjectsReturned unless exactly one row has the flag.
curr_hunt_raises == Cardinality(CurrentHunts) # 1
curr_hunt == CHOOSE h \in CurrentHunts : TRUE

\* The index view: the current hunt is looked up and rendered; the lookup
\* reads the committed rows whatever transactions are open.
index ==
    /\ IF curr_hunt_raises
       THEN /\ last' = [op |-> "index", hunt |-> 0]
            /\ response' = "error"
       ELSE /\ last' = [op |-> "index", hunt |-> curr_hunt]
            /\ response' = "index.html"
    /\ UNCHANGED <<huntVars, txn, regVars, gradeVars, reqs, timeVars>>

\* The first statement of every view failing: the request ends in a server
\* error and nothing is written.
ServerError(op) ==
    /\ last' = [op |-> op]
    /\ response' = "error"
    /\ UNCHANGED <<huntVars, txn, regVars>>

\* (mutation of team_is_full: full only above capacity)
team_is_full_above(i) == Cardinality(person_set(i)) > team_size[teams[i].hunt]

\* len(team.person_set.all()) >= team.hunt.team_size
team_is_full(i) == Cardinality(person_set(i)) >= team_size[teams[i].hunt]

\* (mutation of code_mismatch: the codes are compared as typed)
code_mismatch_exact(i, code) == teams[i].join_code # code

\* team.join_code.lower() != request.POST.get("join_code").lower()
code_mismatch(i, code) == lower(teams[i].join_code) # lower(code)

\* registration, form_type = "new_team"
new_team(u, name) ==
    /\ NoTxn
    /\ UNCHANGED <<gradeVars, reqs, timeVars>>
    /\ IF curr_hunt_raises THEN ServerError("new_team")
       ELSE
         /\ last' = [op |-> "new_team", name |-> name]
         /\ UNCHANGED <<huntVars, txn>>
         /\ IF \E i \in team_set(curr_hunt) : iexact(teams[i].team_name, name)
            THEN /\ response' = "fail-exists"
                 /\ UNCHANGED regVars
            ELSE IF name # <<>>
            THEN /\ Len(teams) < MaxTeams
                 /\ \E join_code \in GeneratedCodes :
                       teams' = Append(teams, [team_name |-> name,
                                               hunt |-> curr_hunt,
                                               join_code |-> join_code])
                 /\ membership' = membership \cup {<<u, Len(teams) + 1>>}
                 /\ response' = "registration.html"
            ELSE /\ response' = "registration.html"
                 /\ UNCHANGED regVars

\* registration, form_type = "join_team"
join_team(u, name, code) ==
    /\ NoTxn
    /\ UNCHANGED <<gradeVars, reqs, timeVars>>
    /\ IF curr_hunt_raises THEN ServerError("join_team")
       ELSE
         LET found == {i \in team_set(curr_hunt) : teams[i].team_name = name} IN
         /\ last' = [op |-> "join_team"]
         /\ UNCHANGED <<huntVars, txn, teams>>
         /\ IF Cardinality(found) # 1
            THEN \* curr_hunt.team_set.get(...) raises
                 /\ response' = "error"
                 /\ UNCHANGED membership
            ELSE LET team == CHOOSE i \in found : TRUE IN
                 IF team_is_full(team)
                 THEN /\ response' = "fail-full"
                      /\ UNCHANGED membership
                 ELSE IF code_mismatch(team, code)
                 THEN /\ response' = "fail-password"
                      /\ UNCHANGED membership
                 ELSE /\ membership' = membership \cup {<<u, team>>}
                      /\ response' = "registration.html"

\* utils.team_from_user_hunt(user, hunt): the values it can return, a team of
\* the hunt the user belongs to, or None (0) when there is none.
team_from_user_hunt(u, h) ==
    LET mine == {i \in team_set(h) : <<u, i>> \in membership} IN
    IF mine = {} THEN {0} ELSE mine

\* (mutation of remove_team: every team of the person is removed)
remove_every_team(mem, u, team) == {m \in mem : m[1] # u}

\* request.user.person.teams.remove(team); removing None removes nothing.
remove_team(mem, u, team) == mem \ {<<u, team>>}

\* registration, form_type = "leave_team"
leave_team(u) ==
    /\ NoTxn
    /\ UNCHANGED <<gradeVars, reqs, timeVars>>
    /\ IF curr_hunt_raises THEN ServerError("leave_team")
       ELSE
         /\ UNCHANGED <<huntVars, txn, teams>>
         /\ \E team \in team_from_user_hunt(u, curr_hunt) :
               /\ membership' = remove_team(membership, u, team)
               /\ last' = [op |-> "leave_team", user |-> u, team |-> team]
         /\ response' = "registration.html"

\* ------------------------------------------------ registration, concurrent
\* The same view served for several requests at once.  The view opens no
\* transaction, so every statement is committed on its own and the other
\* requests see the rows at once.  new_team is three steps: the lookups up
\* to the duplicate check, Team.objects.create, teams.add.  join_team is
\* three: the lookup of the team, the count of its members with the two
\* tests, teams.add.  leave_team is two: the lookup of the
\* user's team, teams.remove.  A request that ends records the form it
\* served in last and its answer in response.

\* Requests that have passed the duplicate check and not yet inserted.
Creating == {r \in Requests : reqs[r].pc = "create"}

\* new_team up to the test of the name (lines 26-32).
new_team_check(r, u, name) ==
    /\ reqs[r].pc = "idle"
    /\ UNCHANGED <<huntVars, txn, gradeVars, timeVars, regVars>>
    /\ IF curr_hunt_raises
       THEN /\ last' = [op |-> "new_team"]
            /\ response' = "error"
            /\ UNCHANGED reqs
       ELSE IF \E i \in team_set(curr_hunt) : iexact(teams[i].team_name, name)
       THEN /\ last' = [op |-> "new_team"]
            /\ response' = "fail-exists"
            /\ UNCHANGED reqs
       ELSE IF name # <<>>
       THEN /\ Len(teams) + Cardinality(Creating) < MaxTeams
            /\ reqs' = [reqs EXCEPT ![r] = [pc |-> "create", user |-> u, team |-> 0,
                                            hunt |-> curr_hunt, name |-> name,
                                            code |-> <<>>]]
            /\ UNCHANGED <<last, response>>
       ELSE /\ last' = [op |-> "new_team"]
            /\ response' = "registration.html"
            /\ UNCHANGED reqs

\* join_code and Team.objects.create of new_team (lines 33-35).
new_team_create(r) ==
    /\ reqs[r].pc = "create"
    /\ \E join_code \in GeneratedCodes :
          teams' = Append(teams, [team_name |-> reqs[r].name,
                                  hunt |-> reqs[r].hunt,
                                  join_code |-> join_code])
    /\ reqs' = [reqs EXCEPT ![r].pc = "add_creator", ![r].team = Len(teams) + 1]
    /\ UNCHANGED <<huntVars, txn, gradeVars, timeVars, membership, last, response>>

\* request.user.person.teams.add(team) of new_team (line 36).
new_team_add(r) ==
    /\ reqs[r].pc = "add_creator"
    /\ membership' = membership \cup {<<reqs[r].user, reqs[r].team>>}
    /\ reqs' = [reqs EXCEPT ![r] = IdleRequest]
    /\ last' = [op |-> "new_team"]
    /\ response' = "registration.html"
    /\ UNCHANGED <<huntVars, txn, gradeVars, timeVars, teams>>

\* Line 36 raises (request.user.person does not exist, or the insert is
\* refused by the database): the request ends in a server error; the Team
\* row of line 34 is already committed and stays.
new_team_add_fails(r) ==
    /\ reqs[r].pc = "add_creator"
    /\ reqs' = [reqs EXCEPT ![r] = IdleRequest]
    /\ last' = [op |-> "new_team"]
    /\ response' = "error"
    /\ UNCHANGED <<huntVars, txn, gradeVars, timeVars, teams, membership>>

\* leave_team up to the lookup of the user's team (lines 26-27).
leave_team_lookup(r, u) ==
    /\ reqs[r].pc = "idle"
    /\ UNCHANGED <<huntVars, txn, gradeVars, timeVars, regVars>>
    /\ IF curr_hunt_raises
       THEN /\ last' = [op |-> "leave_team"]
            /\ response' = "error"
            /\ UNCHANGED reqs
       ELSE /\ \E team \in team_from_user_hunt(u, curr_hunt) :
                  reqs' = [reqs EXCEPT ![r] = [pc |-> "remove", user |-> u,
                                               team |-> team, hunt |-> curr_hunt,
                                               name |-> <<>>, code |-> <<>>]]
            /\ UNCHANGED <<last, response>>

\* request.user.person.teams.remove(team) of leave_team (line 47).
leave_team_remove(r) ==
    /\ reqs[r].pc = "remove"
    /\ membership' = remove_team(membership, reqs[r].user, reqs[r].team)
    /\ reqs' = [reqs EXCEPT ![r] = IdleRequest]
    /\ last' = [op |-> "leave_team"]
    /\ response' = "registration.html"
    /\ UNCHANGED <<huntVars, txn, gradeVars, timeVars, teams>>

\* join_team up to the lookup of the team by its name (lines 26-39).
join_team_lookup(r, u, name, code) ==
    /\ reqs[r].pc = "idle"
    /\ UNCHANGED <<huntVars, txn, gradeVars, timeVars, regVars>>
    /\ IF curr_hunt_raises
       THEN /\ last' = [op |-> "join_team"]
            /\ response' = "error"
            /\ UNCHANGED reqs
       ELSE
         LET found == {i \in team_set(curr_hunt) : teams[i].team_name = name} IN
         IF Cardinality(found) # 1
         THEN \* curr_hunt.team_set.get(...) raises
              /\ last' = [op |-> "join_team"]
              /\ response' = "error"
              /\ UNCHANGED reqs
         ELSE /\ reqs' = [reqs EXCEPT ![r] = [pc |-> "count", user |-> u,
                                              team |-> CHOOSE i \in found : TRUE,
                                              hunt |-> curr_hunt,
                                              name |-> <<>>, code |-> code]]
              /\ UNCHANGED <<last, response>>

\* The capacity test and the code test of join_team (lines 40-43): the
\* members of the team found at line 39 are counted as they are stored now.
join_team_check(r) ==
    /\ reqs[r].pc = "count"
    /\ UNCHANGED <<huntVars, txn, gradeVars, timeVars, regVars>>
    /\ IF team_is_full(reqs[r].team)
       THEN /\ last' = [op |-> "join_team"]
            /\ response' = "fail-full"
            /\ reqs' = [reqs EXCEPT ![r] = IdleRequest]
       ELSE IF code_mismatch(reqs[r].team, reqs[r].code)
       THEN /\ last' = [op |-> "join_team"]
            /\ response' = "fail-password"
            /\ reqs' = [reqs EXCEPT ![r] = IdleRequest]
       ELSE /\ reqs' = [reqs EXCEPT ![r].pc = "add_member"]
            /\ UNCHANGED <<last, response>>

\* request.user.person.teams.add(team) of join_team (line 44).
join_team_add(r) ==
    /\ reqs[r].pc = "add_member"
    /\ membership' = membership \cup {<<reqs[r].user, reqs[r].team>>}
    /\ reqs' = [reqs EXCEPT ![r] = IdleRequest]
    /\ last' = [op |-> "join_team"]
    /\ response' = "registration.html"
    /\ UNCHANGED <<huntVars, txn, gradeVars, timeVars, teams>>

\* Line 44 raises (request.user.person does not exist, or the insert is
\* refused by the database): the request ends in a server error and no
\* membership is stored.
join_team_add_fails(r) ==
    /\ reqs[r].pc = "add_member"
    /\ reqs' = [reqs EXCEPT ![r] = IdleRequest]
    /\ last' = [op |-> "join_team"]
    /\ response' = "error"
    /\ UNCHANGED <<huntVars, txn, gradeVars, timeVars, teams, membership>>

NewTeamCheck == \E r \in Requests, u \in Persons, name \in TeamNames :
                   new_team_check(r, u, name)
NewTeamCreate == \E r \in Requests : new_team_create(r)
NewTeamAdd == \E r \in Requests : new_team_add(r)
NewTeamAddFails == \E r \in Requests : new_team_add_fails(r)
JoinTeamLookup == \E r \in Requests, u \in Persons, name \in TeamNames, code \in PostedCodes :
                     join_team_lookup(r, u, name, code)
JoinTeamCheck == \E r \in Requests : join_team_check(r)
JoinTeamAdd == \E r \in Requests : join_team_add(r)
JoinTeamAddFails == \E r \in Requests : join_team_add_fails(r)
LeaveTeamLookup == \E r \in Requests, u \in Persons : leave_team_lookup(r, u)
LeaveTeamRemove == \E r \in Requests : leave_team_remove(r)

NewTeam == \E u \in Persons, name \in TeamNames : new_team(u, name)
JoinTeam == \E u \in Persons, name \in TeamNames, code \in PostedCodes :
               join_team(u, name, code)
LeaveTeam == \E u \in Persons : leave_team(u)

\* ------------------------------------------------- puzzles and submissions
\* The Puzzle tables the model is run on (answer, num_required_to_unlock,
\* unlocks, hunt): a chain behind an entry puzzle; a puzzle that needs two
\* others; a cycle of unlocks edges; self-loops with a puzzle that can never
\* unlock.
PuzzleRow(answer, n, unl) ==
    [answer |-> answer, num_required_to_unlock |-> n, unlocks |-> unl, hunt |-> 1]
PuzzleTables ==
    { << PuzzleRow(<<"A", "b">>, 0, {2}), PuzzleRow(<<"B">>, 1, {3}),
         PuzzleRow(<<"b", "A">>, 1, {}) >>,
      << PuzzleRow(<<"A", "b">>, 0, {3}), PuzzleRow(<<"B">>, 0, {3}),
         PuzzleRow(<<"b", "A">>, 2, {}) >>,
      << PuzzleRow(<<"A", "b">>, 0, {2}), PuzzleRow(<<"B">>, 1, {3}),
         PuzzleRow(<<"b", "A">>, 1, {2}) >>,
      << PuzzleRow(<<"A", "b">>, 0, {1, 2}), PuzzleRow(<<"B">>, 2, {2, 3}),
         PuzzleRow(<<"b", "A">>, 1, {1}) >> }
\* The texts teams submit.
Texts == { <<"A", "b">>, <<"a", "B">>, <<"b">>, <<"B", "a">> }

PuzzleIds == 1..Len(puzzles)
TeamIds == 1..Len(teams)

\* The Response table: per puzzle, in declaration order, a regex and the
\* canned text it supplies.  The regexes of the model are sequences of
\* literal characters and of ".", which stands for any one character.
Responses ==
    << [puzzle |-> 1, regex |-> <<".">>, text |-> "hint-1"],
       [puzzle |-> 1, regex |-> <<"b">>, text |-> "hint-2"],
       [puzzle |-> 2, regex |-> <<"A", ".">>, text |-> "hint-3"],
       [puzzle |-> 2, regex |-> <<"b">>, text |-> "hint-4"] >>

\* A regex matches a text: same length, every character the same or ".".
regex_matches(regex, text) ==
    /\ Len(regex) = Len(text)
    /\ \A i \in 1..Len(regex) : regex[i] = "." \/ regex[i] = text[i]

\* The Response rows of a puzzle whose regex matches the text.
matching_responses(text, q) ==
    {k \in 1..Len(Responses) :
        Responses[k].puzzle = q /\ regex_matches(Responses[k].regex, text)}

\* (mutation of is_correct: a text that matches a Response regex counts too)
is_correct_or_response(text, q) ==
    \/ lower(text) = lower(puzzles[q].answer)
    \/ matching_responses(text, q) # {}

\* (mutation of is_correct: the texts are compared as typed)
is_correct_exact(text, q) == text = puzzles[q].answer

\* Submission.is_correct
is_correct(text, q) == lower(text) = lower(puzzles[q].answer)

\* (mutation of violates_unique_together: the constraint is not declared)
no_unique_together(rows, row) == FALSE

\* Meta.unique_together = ('puzzle', 'team') of Solve and of Unlock: an insert
\* of a row whose pair is already stored fails with IntegrityError.
violates_unique_together(rows, row) ==
    \E k \in 1..Len(rows) : rows[k].puzzle = row.puzzle /\ rows[k].team = row.team

\* team.solved / team.unlocked: the puzzles of the Solve / Unlock rows of a team.
solved(slv, t) == {slv[k].puzzle : k \in {j \in 1..Len(slv) : slv[j].team = t}}
unlocked(unl, t) == {unl[k].puzzle : k \in {j \in 1..Len(unl) : unl[j].team = t}}

\* ------------------------------------------------------------ unlock engine
\* How many Solve rows of the team are for a puzzle that lists q in unlocks.
prerequisite_points(slv, t, q) ==
    Cardinality({k \in 1..Len(slv) :
                    slv[k].team = t /\ q \in puzzles[slv[k].puzzle].unlocks})

\* (mutation of meets_threshold: one prerequisite more than required)
meets_threshold_strict(points, q) == points > puzzles[q].num_required_to_unlock

\* The count of solved prerequisites reaches num_required_to_unlock.
meets_threshold(points, q) == points >= puzzles[q].num_required_to_unlock

\* (mutation of newly_qualified: puzzles already unlocked qualify again)
qualified_again(slv, unl, t) ==
    {q \in PuzzleIds :
        /\ puzzles[q].hunt = teams[t].hunt
        /\ meets_threshold(prerequisite_points(slv, t, q), q)}

\* The puzzles of the team's hunt that qualify and have no Unlock row yet.
newly_qualified(slv, unl, t) ==
    {q \in PuzzleIds :
        /\ puzzles[q].hunt = teams[t].hunt
        /\ meets_threshold(prerequisite_points(slv, t, q), q)
        /\ q \notin unlocked(unl, t)}

\* Insert of one Unlock row; an insert the uniqueness constraint refuses
\* leaves the table as it is.
create_unlock(unl, t, q) ==
    LET row == [puzzle |-> q, team |-> t] IN
    IF violates_unique_together(unl, row) THEN unl ELSE Append(unl, row)

\* One round: an Unlock row for every puzzle of qs, in pk order.
RECURSIVE create_unlocks(_, _, _)
create_unlocks(unl, t, qs) ==
    IF qs = {} THEN unl
    ELSE LET q == CHOOSE x \in qs : \A y \in qs : x <= y IN
         create_unlocks(create_unlock(unl, t, q), t, qs \ {q})

\* The rounds are bounded by the number of puzzles.
max_rounds == Len(puzzles)

\* Rounds until no new puzzle qualifies: the table, the rounds that created
\* rows, and whether the iteration ended at a fixed point.
RECURSIVE unlock_rounds(_, _, _, _)
unlock_rounds(slv, unl, t, n) ==
    LET new == newly_qualified(slv, unl, t) IN
    IF new = {} THEN [unlocks |-> unl, rounds |-> n, converged |-> TRUE]
    ELSE IF n >= max_rounds THEN [unlocks |-> unl, rounds |-> n, converged |-> FALSE]
    ELSE unlock_rounds(slv, create_unlocks(unl, t, new), t, n + 1)

\* Unlock re-evaluation for a team.
unlock_puzzles(slv, unl, t) == unlock_rounds(slv, unl, t, 0)

\* Re-evaluation on its own, with the tables as they are.
reevaluate(t) ==
    LET r == unlock_puzzles(solves, unlocks, t) IN
    /\ \A g \in Graders : grading[g].pc = "idle"
    /\ unlocks' = r.unlocks
    /\ last' = [op |-> "unlock_puzzles", team |-> t, created |-> FALSE,
                refused |-> FALSE, rounds |-> r.rounds, converged |-> r.converged]
    /\ response' = "none"
    /\ UNCHANGED <<huntVars, txn, regVars, reqs, timeVars, puzzles, submissions, solves, grading>>

\* ------------------------------------------------------------------ grader
\* The response text of a submission: that of a correct answer, else the text
\* of the first Response whose regex matches, else the empty default.
response_text(text, q) ==
    IF is_correct(text, q) THEN "correct"
    ELSE IF matching_responses(text, q) # {}
    THEN Responses[CHOOSE k \in matching_responses(text, q) :
                      \A j \in matching_responses(text, q) : k <= j].text
    ELSE ""

\* The Submission row that is stored.
submission_row(t, q, text) ==
    [team |-> t, puzzle |-> q, submission_text |-> text,
     response_text |-> response_text(text, q)]

IdleGrader == [pc |-> "idle", team |-> 0, puzzle |-> 0, submission |-> 0]

\* (mutation of may_solve: the puzzle need not be unlocked)
may_solve_locked(t, q, text) ==
    /\ is_correct(text, q)
    /\ q \notin solved(solves, t)

\* A submission moves the pair from UNLOCKED to SOLVED: it is correct, the
\* puzzle is unlocked for the team, and no Solve row exists for the pair.
may_solve(t, q, text) ==
    /\ is_correct(text, q)
    /\ q \in unlocked(unlocks, t)
    /\ q \notin solved(solves, t)

\* Insert of the Solve row and the unlock re-evaluation, as one unit.  An
\* insert the uniqueness constraint refuses is taken as already solved.
solve_and_unlock(t, q, sub) ==
    LET row == [puzzle |-> q, team |-> t, submission |-> sub] IN
    IF violates_unique_together(solves, row)
    THEN /\ UNCHANGED <<solves, unlocks>>
         /\ last' = [op |-> "grade", team |-> t, created |-> FALSE,
                     refused |-> TRUE, rounds |-> 0, converged |-> TRUE]
    ELSE LET slv == Append(solves, row)
             r == unlock_puzzles(slv, unlocks, t) IN
         /\ solves' = slv
         /\ unlocks' = r.unlocks
         /\ last' = [op |-> "grade", team |-> t, created |-> TRUE,
                     refused |-> FALSE, rounds |-> r.rounds, converged |-> r.converged]

\* grade(team, puzzle, text) for one request at a time: the submission is
\* stored whatever its text; a submission that may solve creates the Solve.
grade(t, q, text) ==
    /\ \A g \in Graders : grading[g].pc = "idle"
    /\ Len(submissions) < MaxSubmissions
    /\ submissions' = Append(submissions, submission_row(t, q, text))
    /\ IF may_solve(t, q, text)
       THEN solve_and_unlock(t, q, Len(submissions) + 1)
       ELSE /\ UNCHANGED <<solves, unlocks>>
            /\ last' = [op |-> "grade", team |-> t, created |-> FALSE,
                        refused |-> FALSE, rounds |-> 0, converged |-> TRUE]
    /\ response' = IF is_correct(text, q) THEN "correct" ELSE "incorrect"
    /\ UNCHANGED <<huntVars, txn, regVars, reqs, timeVars, puzzles, grading>>

\* The same for several requests at once: storing the submission and looking
\* for an earlier Solve is one step, the Solve insert a later one.
grade_begin(g, t, q, text) ==
    /\ grading[g].pc = "idle"
    /\ Len(submissions) < MaxSubmissions
    /\ submissions' = Append(submissions, submission_row(t, q, text))
    /\ IF may_solve(t, q, text)
       THEN /\ grading' = [grading EXCEPT ![g] =
                              [pc |-> "insert", team |-> t, puzzle |-> q,
                               submission |-> Len(submissions) + 1]]
            /\ UNCHANGED <<last, response>>
       ELSE /\ UNCHANGED grading
            /\ last' = [op |-> "grade", team |-> t, created |-> FALSE,
                        refused |-> FALSE, rounds |-> 0, converged |-> TRUE]
            /\ response' = IF is_correct(text, q) THEN "correct" ELSE "incorrect"
    /\ UNCHANGED <<huntVars, txn, regVars, reqs, timeVars, puzzles, solves, unlocks>>

grade_insert(g) ==
    /\ grading[g].pc = "insert"
    /\ solve_and_unlock(grading[g].team, grading[g].puzzle, grading[g].submission)
    /\ response' = "correct"
    /\ grading' = [grading EXCEPT ![g] = IdleGrader]
    /\ UNCHANGED <<huntVars, txn, regVars, reqs, timeVars, puzzles, submissions>>

Grade == \E t \in TeamIds, q \in PuzzleIds, text \in Texts : grade(t, q, text)
Reevaluate == \E t \in TeamIds : reevaluate(t)
GradeBegin == \E g \in Graders, t \in TeamIds, q \in PuzzleIds, text \in Texts :
                 grade_begin(g, t, q, text)
GradeInsert == \E g \in Graders : grade_insert(g)

\* ---------------------------------------------------------- specifications
NoCall == [op |-> "none"]

InitHunt ==
    /\ hunt_rows = {}
    /\ is_current_hunt = [h \in HuntIds |-> FALSE]
    /\ team_size = [h \in HuntIds |-> 0]
    /\ txn = [p \in Procs |-> IdleTxn]

InitReg ==
    /\ teams = <<>>
    /\ membership = {}
    /\ reqs = [r \in Requests |-> IdleRequest]

\* The clock stands still and no hunt's dates are being read.
InitTime ==
    /\ now = 0
    /\ dates = [start_date |-> 0, end_date |-> 0]

InitPuzzles ==
    /\ puzzles = <<>>
    /\ submissions = <<>>
    /\ solves = <<>>
    /\ unlocks = <<>>
    /\ grading = [g \in Graders |-> IdleGrader]

Init ==
    /\ InitHunt
    /\ InitReg
    /\ InitPuzzles
    /\ InitTime
    /\ last = NoCall
    /\ response = "none"

\* A hunt in progress: hunt 1 is current, two teams have registered, the
\* puzzles are one of PuzzleTables and every team holds the entry puzzles.
RECURSIVE initial_unlocks(_, _)
initial_unlocks(unl, t) ==
    IF t > Len(teams) THEN unl
    ELSE initial_unlocks(unlock_puzzles(<<>>, unl, t).unlocks, t + 1)

InitGrade ==
    /\ hunt_rows = {1}
    /\ is_current_hunt = [h \in HuntIds |-> h = 1]
    /\ team_size = [h \in HuntIds |-> IF h = 1 THEN MaxTeamSize ELSE 0]
    /\ txn = [p \in Procs |-> IdleTxn]
    /\ teams = << [team_name |-> <<"A", "b">>, hunt |-> 1,
                   join_code |-> <<"A", "B", "2", "A", "B">>],
                  [team_name |-> <<"B">>, hunt |-> 1,
                   join_code |-> <<"A", "B", "2", "A", "B">>] >>
    /\ membership = {<<1, 1>>, <<2, 2>>}
    /\ reqs = [r \in Requests |-> IdleRequest]
    /\ InitTime
    /\ puzzles \in PuzzleTables
    /\ submissions = <<>>
    /\ solves = <<>>
    /\ unlocks = initial_unlocks(<<>>, 1)
    /\ grading = [g \in Graders |-> IdleGrader]
    /\ last = NoCall
    /\ response = "none"

\* A hunt with any start and end date (the model form does not compare
\* them), read as time passes.
InitDates ==
    /\ InitHunt
    /\ InitReg
    /\ InitPuzzles
    /\ now = 0
    /\ dates \in [start_date : Times, end_date : Times]
    /\ last = NoCall
    /\ response = "none"

\* Registration is open: hunt 1 is the current hunt and has no team yet.
InitRegConc ==
    /\ hunt_rows = {1}
    /\ is_current_hunt = [h \in HuntIds |-> h = 1]
    /\ team_size = [h \in HuntIds |-> IF h = 1 THEN MaxTeamSize ELSE 0]
    /\ txn = [p \in Procs |-> IdleTxn]
    /\ InitReg
    /\ InitPuzzles
    /\ InitTime
    /\ last = NoCall
    /\ response = "none"

NextRegConc ==
    \/ NewTeamCheck \/ NewTeamCreate \/ NewTeamAdd \/ NewTeamAddFails
    \/ JoinTeamLookup \/ JoinTeamCheck \/ JoinTeamAdd \/ JoinTeamAddFails
    \/ LeaveTeamLookup \/ LeaveTeamRemove

NextDates == HuntState \/ Tick
NextGrade == Grade \/ Reevaluate
NextGradeConc == GradeBegin \/ GradeInsert
NextHuntConc == TxBegin \/ TxClearStep \/ TxWriteStep \/ index

Next == SaveHunt \/ NewTeam \/ JoinTeam \/ LeaveTeam

\* Hunt administration and registration, one request at a time.
Spec == Init /\ [][Next]_vars
\* Hunt administration from several connections at once, with page views.
SpecHuntConc == Init /\ [][NextHuntConc]_vars
\* Registration from several requests at once.
SpecRegConc == InitRegConc /\ [][NextRegConc]_vars
\* The locked / open / public state of a hunt over time.
SpecDates == InitDates /\ [][NextDates]_vars
\* Grading and unlocking during a hunt, one request at a time.
SpecGrade == InitGrade /\ [][NextGrade]_vars
\* Grading from several requests at once.
SpecGradeConc == InitGrade /\ [][NextGradeConc]_vars

\* ------------------------------------------------------------------ claims

\* C1: after every Hunt.save with is_current_hunt = True, run one after
\* another, exactly one hunt is current and it is the hunt just saved.
C1_ExactlyOneCurrentAfterSetCurrent ==
    (last.op = "save" /\ response = "saved" /\ last.cur)
        => CurrentHunts = {last.pk}

\* A setCurrent call has completed while other hunts exist.
C1_Witness ==
    /\ last.op = "save"
    /\ response = "saved"
    /\ last.cur
    /\ Cardinality(hunt_rows) >= 2
    /\ CurrentHunts = {last.pk}

\* C2: under any interleaving of concurrent Hunt.save transactions no
\* committed state has two current hunts, and once a hunt is current no
\* committed state has none.
C2_ConcurrentSavesKeepOneCurrent ==
    /\ [](Cardinality(CurrentHunts) <= 1)
    /\ [][CurrentHunts # {} => CurrentHunts' # {}]_vars

\* C3: a save that would unset the flag on the stored current hunt is
\* rejected with ValidationError and changes no row; a hunt loses the flag
\* only in a step that saves another hunt as current.
C3_UnsetRejected ==
    [][ /\ \A pk \in HuntIds, size \in TeamSizes :
              (save(pk, FALSE, size) /\ pk \in CurrentHunts)
                 => (/\ response' = "ValidationError"
                     /\ is_current_hunt' = is_current_hunt
                     /\ hunt_rows' = hunt_rows)
        /\ \A h \in HuntIds :
              (is_current_hunt[h] /\ ~is_current_hunt'[h])
                 => (/\ last'.op = "save"
                     /\ response' = "saved"
                     /\ last'.cur
                     /\ last'.pk # h) ]_vars

\* An attempt to unset the current hunt has been rejected.
C3_Witness ==
    /\ last.op = "save"
    /\ response = "ValidationError"
    /\ ~last.cur
    /\ CurrentHunts = {last.pk}

\* The Solve / Unlock rows stored for a pair.
SolveCount(t, q) ==
    Cardinality({k \in 1..Len(solves) : solves[k].team = t /\ solves[k].puzzle = q})
UnlockCount(t, q) ==
    Cardinality({k \in 1..Len(unlocks) : unlocks[k].team = t /\ unlocks[k].puzzle = q})

\* Two characters that are the same letter in either case, stated without
\* str.lower(); two strings equal ignoring letter case.
SameLetter(c, d) ==
    \/ c = d
    \/ \E i \in 1..Len(UpperChars) : {c, d} = {UpperChars[i], LowerChars[i]}
EqualIgnoringCase(a, b) ==
    /\ Len(a) = Len(b)
    /\ \A i \in 1..Len(a) : SameLetter(a[i], b[i])

\* The submissions stored for a pair whose text is the answer ignoring case.
CorrectSubmissions(t, q) ==
    {k \in 1..Len(submissions) :
        /\ submissions[k].team = t
        /\ submissions[k].puzzle = q
        /\ EqualIgnoringCase(submissions[k].submission_text, puzzles[q].answer)}

\* C4: no pair ever has two Solve rows; a grading step whose text is the
\* answer ignoring case, for a puzzle unlocked and not yet solved, appends one
\* Solve row that references the new submission, and one for a pair already
\* solved leaves the Solve table as it is.
C4_OneSolvePerPair ==
    /\ [](\A t \in TeamIds, q \in PuzzleIds : SolveCount(t, q) <= 1)
    /\ [][ (last'.op = "grade" /\ Len(submissions') = Len(submissions) + 1) =>
             LET sub == submissions'[Len(submissions')] IN
             EqualIgnoringCase(sub.submission_text, puzzles[sub.puzzle].answer) =>
                /\ (/\ sub.puzzle \in unlocked(unlocks, sub.team)
                    /\ SolveCount(sub.team, sub.puzzle) = 0)
                   => solves' = Append(solves, [puzzle |-> sub.puzzle,
                                                team |-> sub.team,
                                                submission |-> Len(submissions')])
                /\ SolveCount(sub.team, sub.puzzle) >= 1 => solves' = solves ]_vars

\* A pair has two correct submissions and the one Solve row references the
\* first of them.
C4_Witness ==
    \E t \in TeamIds, q \in PuzzleIds :
       /\ Cardinality(CorrectSubmissions(t, q)) >= 2
       /\ SolveCount(t, q) = 1
       /\ \E k \in 1..Len(solves) :
             /\ solves[k].team = t
             /\ solves[k].puzzle = q
             /\ \A j \in CorrectSubmissions(t, q) : solves[k].submission <= j

\* C5: with correct submissions graded at once, no pair ever has two Solve
\* rows and every submission being graded is stored; the step that does a
\* grader's Solve insert leaves exactly one Solve row for the pair, answers
\* correct whether the insert went through or was refused by the uniqueness
\* constraint, and removes no submission.
C5_ConcurrentSolveOnce ==
    /\ [](/\ \A t \in TeamIds, q \in PuzzleIds : SolveCount(t, q) <= 1
          /\ \A g \in Graders :
                grading[g].pc = "insert" =>
                   /\ grading[g].submission \in 1..Len(submissions)
                   /\ submissions[grading[g].submission].team = grading[g].team
                   /\ submissions[grading[g].submission].puzzle = grading[g].puzzle)
    /\ [][ \A g \in Graders :
             (grading[g].pc = "insert" /\ grading'[g].pc = "idle") =>
                /\ Cardinality({k \in 1..Len(solves') :
                                   /\ solves'[k].team = grading[g].team
                                   /\ solves'[k].puzzle = grading[g].puzzle}) = 1
                /\ response' = "correct"
                /\ submissions' = submissions ]_vars

\* A Solve insert has been refused by the uniqueness constraint and taken as
\* already solved: the pair has two correct submissions and one Solve row.
C5_Witness ==
    /\ last.op = "grade"
    /\ last.refused
    /\ response = "correct"
    /\ \E q \in PuzzleIds :
          /\ Cardinality(CorrectSubmissions(last.team, q)) >= 2
          /\ SolveCount(last.team, q) = 1

\* The prerequisites of q (the puzzles that list q in unlocks) the team has solved.
SolvedPrerequisites(t, q) ==
    {p \in PuzzleIds : q \in puzzles[p].unlocks /\ SolveCount(t, p) >= 1}

\* C6: in every state a pair has no Unlock row while fewer than
\* num_required_to_unlock prerequisites are solved by the team and exactly one
\* from the step that records the last one needed, re-evaluation included.
C6_UnlockAtThreshold ==
    \A t \in TeamIds, q \in PuzzleIds :
       UnlockCount(t, q) =
          IF Cardinality(SolvedPrerequisites(t, q)) >= puzzles[q].num_required_to_unlock
          THEN 1 ELSE 0

\* Re-evaluation has just run again for a team that holds a puzzle needing
\* two prerequisites, both solved, while the other team has neither.
C6_Witness ==
    /\ last.op = "unlock_puzzles"
    /\ \E q \in PuzzleIds, t \in TeamIds :
          /\ last.team = t
          /\ puzzles[q].num_required_to_unlock = 2
          /\ Cardinality(SolvedPrerequisites(t, q)) = 2
          /\ UnlockCount(t, q) = 1
          /\ \E o \in TeamIds : UnlockCount(o, q) = 0

\* The unlocks edges contain a cycle or a self-loop.
HasCycle ==
    \E p \in PuzzleIds, q \in PuzzleIds :
       q \in puzzles[p].unlocks /\ p \in puzzles[q].unlocks

\* C7: every unlock re-evaluation ends at a fixed point (no puzzle qualifies
\* that has no Unlock row) after at most as many rounds as there are puzzles.
C7_UnlockTerminates ==
    last.op \in {"grade", "unlock_puzzles"} =>
       /\ last.converged
       /\ last.rounds <= Len(puzzles)
       /\ \A q \in PuzzleIds :
             Cardinality(SolvedPrerequisites(last.team, q))
                  >= puzzles[q].num_required_to_unlock
                => UnlockCount(last.team, q) >= 1

\* A re-evaluation on a graph with a cycle has created Unlock rows and ended.
C7_Witness ==
    /\ HasCycle
    /\ last.op = "grade"
    /\ last.created
    /\ last.rounds >= 1
    /\ last.converged
    /\ \E q \in PuzzleIds :
          /\ q \in puzzles[q].unlocks \/ \E p \in PuzzleIds \ {q} :
                                            q \in puzzles[p].unlocks /\ p \in puzzles[q].unlocks
          /\ UnlockCount(last.team, q) = 1

\* C8: a team's solved puzzles are always among its unlocked ones; a pair
\* becomes solved only in a grading step for that pair, on a puzzle unlocked
\* before the step, with a text equal to the answer ignoring case; and no
\* step takes a puzzle out of a team's solved or unlocked set.
C8_LockedUnlockedSolved ==
    /\ [](\A t \in TeamIds : solved(solves, t) \subseteq unlocked(unlocks, t))
    /\ [][ \A t \in TeamIds :
             /\ solved(solves, t) \subseteq solved(solves', t)
             /\ unlocked(unlocks, t) \subseteq unlocked(unlocks', t)
             /\ \A q \in solved(solves', t) \ solved(solves, t) :
                   /\ q \in unlocked(unlocks, t)
                   /\ last'.op = "grade"
                   /\ Len(submissions') = Len(submissions) + 1
                   /\ LET sub == submissions'[Len(submissions')] IN
                      /\ sub.team = t
                      /\ sub.puzzle = q
                      /\ EqualIgnoringCase(sub.submission_text, puzzles[q].answer) ]_vars

\* A puzzle that was locked at the start has been unlocked and then solved.
C8_Witness ==
    \E t \in TeamIds, q \in PuzzleIds :
       /\ puzzles[q].num_required_to_unlock >= 1
       /\ q \in solved(solves, t)
       /\ q \in unlocked(unlocks, t)
       /\ \E o \in TeamIds : q \notin unlocked(unlocks, o)

\* C11: a new_team request whose name equals, ignoring case, the name of a
\* team of the current hunt answers fail-exists and writes nothing; no two
\* teams of one hunt ever have names that are equal ignoring case.
C11_NoDuplicateTeamNames ==
    /\ [](\A i \in TeamIds, j \in TeamIds :
             (i # j /\ teams[i].hunt = teams[j].hunt)
                => ~EqualIgnoringCase(teams[i].team_name, teams[j].team_name))
    /\ [][ (last'.op = "new_team" /\ response' # "error") =>
             ((\E i \in team_set(curr_hunt) :
                    EqualIgnoringCase(teams[i].team_name, last'.name))
                => (/\ response' = "fail-exists"
                    /\ teams' = teams
                    /\ membership' = membership)) ]_vars

\* A name that differs from an existing team's name only in letter case has
\* been refused, while another team of the hunt has a different name.
C11_Witness ==
    /\ last.op = "new_team"
    /\ response = "fail-exists"
    /\ \E i \in team_set(curr_hunt) :
          /\ teams[i].team_name # last.name
          /\ EqualIgnoringCase(teams[i].team_name, last.name)
    /\ Cardinality(team_set(curr_hunt)) >= 2

\* C12: a view that reads the current hunt renders the one hunt whose flag
\* is set when there is exactly one, and ends in an error when no hunt or
\* more than one hunt has the flag set.
C12_CurrentHuntLookup ==
    last.op = "index" =>
       IF Cardinality({h \in hunt_rows : is_current_hunt[h]}) = 1
       THEN /\ response = "index.html"
            /\ last.hunt \in hunt_rows
            /\ is_current_hunt[last.hunt]
       ELSE response = "error"

\* The lookup has failed in a state where two hunts have the flag set.
C12_Witness ==
    /\ last.op = "index"
    /\ response = "error"
    /\ Cardinality({h \in hunt_rows : is_current_hunt[h]}) = 2

\* C13: a graded submission is answered correct exactly when its text equals
\* the puzzle's answer ignoring case; one that does not (a text a Response
\* regex matches included) is answered incorrect and adds no Solve row; every
\* Solve row references a submission of its pair whose text equals the answer
\* ignoring case.
C13_CorrectIffAnswer ==
    /\ [](\A k \in 1..Len(solves) :
             /\ solves[k].submission \in 1..Len(submissions)
             /\ submissions[solves[k].submission].team = solves[k].team
             /\ submissions[solves[k].submission].puzzle = solves[k].puzzle
             /\ EqualIgnoringCase(submissions[solves[k].submission].submission_text,
                                  puzzles[solves[k].puzzle].answer))
    /\ [][ (last'.op = "grade" /\ Len(submissions') = Len(submissions) + 1) =>
             LET sub == submissions'[Len(submissions')] IN
             IF EqualIgnoringCase(sub.submission_text, puzzles[sub.puzzle].answer)
             THEN response' = "correct"
             ELSE /\ response' = "incorrect"
                  /\ solves' = solves
                  /\ unlocks' = unlocks ]_vars

\* A text that is not the answer but matches a Response regex has been graded
\* for an unlocked puzzle: it got the canned text, not a Solve.
C13_Witness ==
    /\ last.op = "grade"
    /\ response = "incorrect"
    /\ Len(submissions) >= 1
    /\ LET sub == submissions[Len(submissions)] IN
       /\ \E k \in 1..Len(Responses) : sub.response_text = Responses[k].text
       /\ sub.puzzle \in unlocked(unlocks, sub.team)
       /\ SolveCount(sub.team, sub.puzzle) = 0

\* C14: for a hunt with start < end read at one instant now, is_locked holds
\* iff now < start, is_open iff start <= now < end, is_public iff now >= end,
\* and exactly one of the three holds.
C14_LockedOpenPublic ==
    (/\ last.op = "hunt_state"
     /\ last.start_date < last.end_date
     /\ last.now2 = last.now)
    => /\ last.is_locked <=> last.now < last.start_date
       /\ last.is_open <=> (last.start_date <= last.now /\ last.now < last.end_date)
       /\ last.is_public <=> last.now >= last.end_date
       /\ Cardinality({p \in {"is_locked", "is_open", "is_public"} : last[p]}) = 1

\* The teams of a hunt a person belongs to.
TeamsOf(u, h) == {i \in TeamIds : teams[i].hunt = h /\ <<u, i>> \in membership}

\* C15: a leave_team request of a person who belongs to a team of the current
\* hunt removes that one membership whatever the team's size and without a
\* join code, is answered with the registration page, and leaves every other
\* membership and the Team table as they were.
C15_LeaveRemovesOnlyThatMembership ==
    [][ (last'.op = "leave_team" /\ response' # "error") =>
          \A u \in Persons :
             (leave_team(u) /\ TeamsOf(u, curr_hunt) # {}) =>
                /\ last'.team \in TeamsOf(u, curr_hunt)
                /\ membership' = membership \ {<<u, last'.team>>}
                /\ teams' = teams
                /\ response' = "registration.html" ]_vars

\* A person has left a team of the current hunt in which someone else
\* remains, and still belongs to a team of another hunt.
C15_Witness ==
    /\ last.op = "leave_team"
    /\ response = "registration.html"
    /\ last.team # 0
    /\ <<last.user, last.team>> \notin membership
    /\ person_set(last.team) # {}
    /\ \E i \in TeamIds : teams[i].hunt # teams[last.team].hunt
                          /\ <<last.user, i>> \in membership

\* C16: a new_team request with a blank team name, served while there is a
\* current hunt, is answered with a failure and not with the registration
\* page, and creates no team and no membership.
C16_BlankNameRejected ==
    [][ (last'.op = "new_team" /\ ~curr_hunt_raises /\ last'.name = <<>>) =>
           /\ response' # "registration.html"
           /\ teams' = teams
           /\ membership' = membership ]_vars

\* C17: every step that stores a new Team row also stores the membership of
\* one person, its creator, in it, so no state has a team that was created
\* without its creator as a member.
C17_TeamCreatedWithCreator ==
    [][ Len(teams') = Len(teams) + 1 =>
          \E u \in Persons :
             membership' = membership \cup {<<u, Len(teams')>>} ]_vars

\* C18: however new_team, join_team and leave_team requests interleave, no
\* team has more members than the team_size of its hunt.
C18_TeamSizeNeverExceeded ==
    \A i \in TeamIds : Cardinality(person_set(i)) <= team_size[teams[i].hunt]

\* C19: no person is ever a member of two teams of one hunt.
C19_OneTeamPerHunt ==
    \A u \in Persons, h \in HuntIds : Cardinality(TeamsOf(u, h)) <= 1

\* C20: a completed save of a hunt with is_current_hunt = False (a new hunt
\* or a stored hunt that is not current) changes the flag of no other hunt
\* and leaves the set of current hunts as it was.
C20_SaveNotCurrentKeepsCurrent ==
    [][ (last'.op = "save" /\ response' = "saved" /\ ~last'.cur) =>
           /\ \A h \in HuntIds \ {last'.pk} : is_current_hunt'[h] = is_current_hunt[h]
           /\ {h \in hunt_rows' : is_current_hunt'[h]}
                 = {h \in hunt_rows : is_current_hunt[h]} ]_vars

\* A hunt that is not the current one has been saved with the flag unset
\* while another hunt is current.
C20_Witness ==
    /\ last.op = "save"
    /\ response = "saved"
    /\ ~last.cur
    /\ \E h \in hunt_rows \ {last.pk} : is_current_hunt[h]

\* The teams of the current hunt whose name is exactly the posted one.
NamedTeams(name) ==
    IF curr_hunt_raises THEN {}
    ELSE {i \in team_set(curr_hunt) : teams[i].team_name = name}

\* C9: join_team on a team whose member count equals the team_size of its
\* hunt answers fail-full and adds no membership.
C9_JoinFullTeamFails ==
    [][ last'.op = "join_team" =>
          \A name \in TeamNames : \A i \in NamedTeams(name) :
            (/\ NamedTeams(name) = {i}
             /\ Cardinality(person_set(i)) = team_size[teams[i].hunt])
            => \A u \in Persons, code \in PostedCodes :
                  join_team(u, name, code)
                     => (/\ response' = "fail-full"
                         /\ membership' = membership) ]_vars

\* A join request was refused on a team that holds exactly team_size members.
C9_Witness ==
    /\ last.op = "join_team"
    /\ response = "fail-full"
    /\ \E i \in 1..Len(teams) :
          /\ teams[i].hunt \in CurrentHunts
          /\ Cardinality(person_set(i)) = team_size[teams[i].hunt]
          /\ Cardinality(person_set(i)) >= 2

\* C10: join_team on a team below capacity adds the person exactly when the
\* posted code equals the join code ignoring letter case, and otherwise
\* answers fail-password and adds no membership.
C10_JoinIffCodeMatches ==
    [][ last'.op = "join_team" =>
          \A name \in TeamNames : \A i \in NamedTeams(name) :
            (/\ NamedTeams(name) = {i}
             /\ Cardinality(person_set(i)) < team_size[teams[i].hunt])
            => \A u \in Persons, code \in PostedCodes :
                  join_team(u, name, code)
                     => IF EqualIgnoringCase(code, teams[i].join_code)
                        THEN /\ membership' = membership \cup {<<u, i>>}
                             /\ response' = "registration.html"
                        ELSE /\ membership' = membership
                             /\ response' = "fail-password" ]_vars

\* A join request with a matching code has added a second member to a team.
C10_Witness ==
    /\ last.op = "join_team"
    /\ response = "registration.html"
    /\ \E i \in 1..Len(teams) :
          /\ teams[i].hunt \in CurrentHunts
          /\ Cardinality(person_set(i)) = 2

====
